---- MODULE Spec2Model ----
(***************************************************************************)
(* Broheim Mod Tracker (Broheim_ModTracker.py).                            *)
(*                                                                         *)
(* A text (a Python str, the content of a file) is a sequence of symbols.  *)
(* A symbol is one character ("," "\"" "\n" "\r" " " ":" "." a digit, a    *)
(* letter) or a word that stands for a run of ordinary characters that is  *)
(* never split ("Author", "Mod Name", "PROFILE STATISTICS").               *)
(***************************************************************************)
EXTENDS Integers, Sequences, FiniteSets, TLC

VARIABLES
    pc,               \* the step the run is at
    mod,              \* parse_mod_info: the raw manifest entry
    parsed,           \* parse_mod_info: its outcome
    mods_list,        \* the list of canonical records
    profile_name,     \* the profile being exported
    stats,            \* calculate_statistics: the summary
    csv_text,         \* the content of the CSV file written or read
    mods,             \* load_csv_for_comparison: the mapping returned
    file1, file2,     \* compare_exports: the content of the two files chosen
    mods1, mods2,     \* compare_exports: the two mappings loaded
    added, removed,   \* compare_exports: key sets
    common,           \* compare_exports: the keys of both mappings
    updated,          \* compare_exports: version-change triples
    enabled_changes,  \* compare_exports: enabled-change triples
    error,            \* the exception the last operation ended with, "" for none
    HAS_ODF,          \* whether odfpy was imported
    typed,            \* main: what the last prompt got
    csv_files,        \* compare_exports: the number of files in csv_files/
    idx1_ok,          \* compare_exports: whether idx1 is the index of a file
    csv_out, ods_out  \* export_mode: what became of the CSV and of the ODS file

\* The variables of the run of main.
session == <<HAS_ODF, typed, csv_files, idx1_ok, csv_out, ods_out>>

vars == <<pc, mod, parsed, mods_list, profile_name, stats, csv_text, mods,
          file1, file2, mods1, mods2, added, removed, common, updated,
          enabled_changes, error, session>>

----------------------------------------------------------------------------
(* Characters with a meaning to the csv module or to str.strip.            *)

LF == "\n"
CR == "\r"
QUOTE == "\""
DELIM == ","
SP == " "
COLON == ":"
DOT == "."
\* The end-of-line marker csv.reader feeds itself after each line ('\0').
EOL == "\\0"
\* The value None (DictReader's restval); no text holds this symbol.
None == <<"\\None">>

Whitespace == {SP, "\t", LF, CR}

----------------------------------------------------------------------------
(* Sequences and Python's str methods.                                     *)

\* F(v), with v evaluated once where F uses it many times.
With(v, F(_)) == CHOOSE r \in {F(x) : x \in {v}} : TRUE

\* The concatenation of the sequences ss[lo], ..., ss[hi] (by halves, so that
\* the evaluation stays shallow on a long text).
RECURSIVE FlattenRange(_, _, _)
FlattenRange(ss, lo, hi) ==
    IF lo > hi THEN <<>>
    ELSE IF lo = hi THEN ss[lo]
    ELSE LET mid == (lo + hi) \div 2
         IN  FlattenRange(ss, lo, mid) \o FlattenRange(ss, mid + 1, hi)

Flatten(ss) == With(ss, LAMBDA v : FlattenRange(v, 1, Len(v)))

\* sep.join(ss)
Join(ss, sep) ==
    Flatten([i \in 1..Len(ss) |-> IF i = 1 THEN ss[i] ELSE sep \o ss[i]])

\* The k-th smallest element of a set of integers.
Nth(S, k) == CHOOSE e \in S : Cardinality({x \in S : x <= e}) = k

Min(a, b) == IF a <= b THEN a ELSE b

Take(s, n) == SubSeq(s, 1, Min(n, Len(s)))

Reverse(s) == [i \in 1..Len(s) |-> s[Len(s) + 1 - i]]

startswith(s, prefix) ==
    Len(s) >= Len(prefix) /\ SubSeq(s, 1, Len(prefix)) = prefix

lstrip(s) ==
    LET kept == {i \in 1..Len(s) : s[i] \notin Whitespace}
    IN  IF kept = {} THEN <<>> ELSE SubSeq(s, Nth(kept, 1), Len(s))

strip(s) == With(s, LAMBDA v : Reverse(lstrip(Reverse(lstrip(v)))))

\* s.split(sep) for a one-character separator: always at least one part.
split(s, sep) ==
    LET at == {i \in 1..Len(s) : s[i] = sep}
        n == Cardinality(at)
        cut(k) == IF k = 0 THEN 0 ELSE IF k > n THEN Len(s) + 1 ELSE Nth(at, k)
    IN  [k \in 1..(n + 1) |-> SubSeq(s, cut(k - 1) + 1, cut(k) - 1)]

Digits == <<"0", "1", "2", "3", "4", "5", "6", "7", "8", "9">>

IsDigit(c) == \E d \in 1..Len(Digits) : Digits[d] = c

DigitVal(c) == (CHOOSE d \in 1..Len(Digits) : Digits[d] = c) - 1

RECURSIVE DigitsVal(_)
DigitsVal(s) ==
    IF s = <<>> THEN 0 ELSE DigitsVal(SubSeq(s, 1, Len(s) - 1)) * Len(Digits) + DigitVal(s[Len(s)])

Unsigned(s) == IF s # <<>> /\ Head(s) \in {"-", "+"} THEN Tail(s) ELSE s

\* int(s) succeeds: surrounding whitespace, an optional sign, decimal digits.
IsInt(s) ==
    LET u == Unsigned(strip(s))
    IN  u # <<>> /\ \A i \in 1..Len(u) : IsDigit(u[i])

\* int(s), where it succeeds.
int(s) ==
    LET t == strip(s)
    IN  IF Head(t) = "-" THEN 0 - DigitsVal(Unsigned(t)) ELSE DigitsVal(Unsigned(t))

\* str(n) of an integer.
RECURSIVE NatStr(_)
NatStr(n) ==
    IF n < Len(Digits) THEN <<Digits[n + 1]>>
    ELSE NatStr(n \div Len(Digits)) \o <<Digits[(n % Len(Digits)) + 1]>>

IntStr(n) == IF n < 0 THEN <<"-">> \o NatStr(0 - n) ELSE NatStr(n)

----------------------------------------------------------------------------
(* csv.writer, excel dialect: QUOTE_MINIMAL, doublequote, "\r\n".          *)

NeedsQuote(field) ==
    \E i \in 1..Len(field) : field[i] \in {DELIM, QUOTE, CR, LF}

\* A faulty variant: a quote inside a field is written once.
SingleQuotes(field) == field

DoubleQuotes(field) ==
    Flatten([i \in 1..Len(field) |->
                IF field[i] = QUOTE THEN <<QUOTE, QUOTE>> ELSE <<field[i]>>])

WriteField(field) ==
    IF NeedsQuote(field) THEN <<QUOTE>> \o DoubleQuotes(field) \o <<QUOTE>>
    ELSE field

\* writer.writerow(row): a row of one empty field is written as "".
writerow(row) ==
    (IF row = << <<>> >> THEN <<QUOTE, QUOTE>>
     ELSE Join([i \in 1..Len(row) |-> WriteField(row[i])], <<DELIM>>))
    \o <<CR, LF>>

----------------------------------------------------------------------------
(* csv.reader, excel dialect, not strict: the parser's state machine.      *)

ReaderStart == [state |-> "START_RECORD", field |-> <<>>, fields |-> <<>>,
                rows |-> <<>>, err |-> FALSE]

SaveField(s) == [s EXCEPT !.fields = Append(s.fields, s.field), !.field = <<>>]

AddChar(s, c) == [s EXCEPT !.field = Append(s.field, c)]

AfterBreak(c) == IF c = EOL THEN "START_RECORD" ELSE "EAT_CRNL"

StartFieldChar(s, c) ==
    IF c \in {LF, CR, EOL} THEN [SaveField(s) EXCEPT !.state = AfterBreak(c)]
    ELSE IF c = QUOTE THEN [s EXCEPT !.state = "IN_QUOTED_FIELD"]
    ELSE IF c = DELIM THEN SaveField(s)
    ELSE [AddChar(s, c) EXCEPT !.state = "IN_FIELD"]

parse_process_char(s, c) ==
    CASE s.state = "START_RECORD" ->
            IF c = EOL THEN s
            ELSE IF c \in {LF, CR} THEN [s EXCEPT !.state = "EAT_CRNL"]
            ELSE StartFieldChar([s EXCEPT !.state = "START_FIELD"], c)
      [] s.state = "START_FIELD" -> StartFieldChar(s, c)
      [] s.state = "IN_FIELD" ->
            IF c \in {LF, CR, EOL} THEN [SaveField(s) EXCEPT !.state = AfterBreak(c)]
            ELSE IF c = DELIM THEN [SaveField(s) EXCEPT !.state = "START_FIELD"]
            ELSE AddChar(s, c)
      [] s.state = "IN_QUOTED_FIELD" ->
            IF c = EOL THEN s
            ELSE IF c = QUOTE THEN [s EXCEPT !.state = "QUOTE_IN_QUOTED_FIELD"]
            ELSE AddChar(s, c)
      [] s.state = "QUOTE_IN_QUOTED_FIELD" ->
            IF c = QUOTE THEN [AddChar(s, c) EXCEPT !.state = "IN_QUOTED_FIELD"]
            ELSE IF c = DELIM THEN [SaveField(s) EXCEPT !.state = "START_FIELD"]
            ELSE IF c \in {LF, CR, EOL}
                 THEN [SaveField(s) EXCEPT !.state = AfterBreak(c)]
            ELSE [AddChar(s, c) EXCEPT !.state = "IN_FIELD"]
      [] s.state = "EAT_CRNL" ->
            IF c \in {LF, CR} THEN s
            ELSE IF c = EOL THEN [s EXCEPT !.state = "START_RECORD"]
            ELSE [s EXCEPT !.err = TRUE]

\* The end of a line: the marker is processed, and a record that is complete
\* is returned (the fields are reset for the next one).
EndOfLine(s) ==
    LET t == parse_process_char(s, EOL)
    IN  IF t.state = "START_RECORD"
        THEN [t EXCEPT !.rows = Append(t.rows, t.fields), !.fields = <<>>]
        ELSE t

\* The end of the input inside a record: what was read is returned.
EndOfInput(s) ==
    IF s.field # <<>> \/ s.state = "IN_QUOTED_FIELD"
    THEN LET t == SaveField(s)
         IN  [t EXCEPT !.rows = Append(t.rows, t.fields), !.fields = <<>>,
                       !.state = "START_RECORD"]
    ELSE s

\* One character of the input. The lines come from io.StringIO, which ends
\* a line at each "\n".
ReaderStep(s, c) ==
    LET t == parse_process_char(s, c)
    IN  IF c = LF THEN EndOfLine(t) ELSE t

\* The characters text[lo..hi] fed in order, up to an error (by halves, so
\* that the evaluation stays shallow on a long text).
RECURSIVE ReaderFeed(_, _, _, _)
ReaderFeed(text, lo, hi, s) ==
    IF lo > hi THEN s
    ELSE IF lo = hi THEN ReaderStep(s, text[lo])
    ELSE LET mid == (lo + hi) \div 2
             t == ReaderFeed(text, lo, mid, s)
         IN  IF t.err THEN t ELSE ReaderFeed(text, mid + 1, hi, t)

\* list(csv.reader(io.StringIO(text)))
csv_reader(text) ==
    With(text, LAMBDA v :
        With(ReaderFeed(v, 1, Len(v), ReaderStart), LAMBDA s :
            EndOfInput(IF v # <<>> /\ v[Len(v)] # LF THEN EndOfLine(s) ELSE s).rows))

----------------------------------------------------------------------------
(* calculate_statistics.                                                   *)

\* Python's order on tuples of integers: a < b.
TupleLess(a, b) ==
    \/ \E k \in 1..Min(Len(a), Len(b)) :
          /\ a[k] < b[k]
          /\ \A j \in 1..(k - 1) : a[j] = b[j]
    \/ /\ Len(a) < Len(b)
       /\ \A j \in 1..Len(a) : a[j] = b[j]

\* Index i put into the index list acc, which is in descending order of key:
\* before the first index whose key is smaller, so after every equal key.
InsertDesc(keys, acc, i) ==
    LET smaller == {p \in 1..Len(acc) : TupleLess(keys[acc[p]], keys[i])}
        at == IF smaller = {} THEN Len(acc) + 1
              ELSE CHOOSE p \in smaller : \A q \in smaller : p <= q
    IN  SubSeq(acc, 1, at - 1) \o <<i>> \o SubSeq(acc, at, Len(acc))

RECURSIVE SortDescFrom(_, _, _)
SortDescFrom(keys, acc, i) ==
    IF i > Len(keys) THEN acc
    ELSE SortDescFrom(keys, InsertDesc(keys, acc, i), i + 1)

\* sorted(items, key=..., reverse=True), keys[i] the key of items[i]: the sort
\* is stable, and reverse=True keeps equal elements in their original order.
sorted_reverse(items, keys) ==
    With(keys, LAMBDA ks :
        With(SortDescFrom(ks, <<>>, 1), LAMBDA perm :
            [p \in 1..Len(items) |-> items[perm[p]]]))

\* The keys of Counter(seq), in the order they were first met.
RECURSIVE FirstSeen(_)
FirstSeen(seq) ==
    IF seq = <<>> THEN <<>>
    ELSE LET rest == FirstSeen(SubSeq(seq, 1, Len(seq) - 1))
             x == seq[Len(seq)]
         IN  IF \E i \in 1..Len(rest) : rest[i] = x THEN rest ELSE Append(rest, x)

\* Counter(seq).items(): <<element, count>> pairs in insertion order.
Counter(seq) ==
    LET ks == FirstSeen(seq)
    IN  [i \in 1..Len(ks) |->
            <<ks[i], Cardinality({j \in 1..Len(seq) : seq[j] = ks[i]})>>]

\* A faulty variant: equal counts come in the reverse of the order in which
\* they were first met.
most_common_unstable(items, n) ==
    Take(Reverse(sorted_reverse(items, [i \in 1..Len(items) |-> <<0 - items[i][2]>>])), n)

\* counter.most_common(n): heapq.nlargest(n, items, key=count), which is
\* sorted(items, key=count, reverse=True)[:n].
most_common(items, n) ==
    Take(sorted_reverse(items, [i \in 1..Len(items) |-> <<items[i][2]>>]), n)

TopN == 5

\* A faulty variant: the characters of the version one by one, which is the
\* order of the strings.
version_key_text(m) ==
    [i \in 1..Len(m.version) |->
        IF IsDigit(m.version[i]) THEN DigitVal(m.version[i]) ELSE 0 - 1]

\* version_key: the tuple of the integers between the dots, and (0, 0, 0)
\* when int() raises on a part.
version_key(m) ==
    LET parts == split(m.version, DOT)
    IN  IF \A i \in 1..Len(parts) : IsInt(parts[i])
        THEN [i \in 1..Len(parts) |-> int(parts[i])]
        ELSE <<0, 0, 0>>

\* datetime.now().strftime(...): one fixed moment, no result depends on it.
export_date == <<"2024-01-01 12:00:00">>

\* sorted_by_version[:5]
newest_of(sorted_by_version) == Take(sorted_by_version, TopN)

\* A faulty variant: the last five as they stand, newest first.
oldest_unreversed(sorted_by_version) ==
    SubSeq(sorted_by_version, Len(sorted_by_version) - Min(TopN, Len(sorted_by_version)) + 1,
           Len(sorted_by_version))

\* sorted_by_version[-5:][::-1]
oldest_of(sorted_by_version) == Take(Reverse(sorted_by_version), TopN)

calculate_statistics(list, profile) ==
    LET total_mods == Len(list)
        enabled_mods == Cardinality({i \in 1..Len(list) : list[i].enabled = <<"Yes">>})
    IN  With(Counter([i \in 1..Len(list) |-> list[i].author]), LAMBDA author_counts :
        With(sorted_reverse(list, [i \in 1..Len(list) |-> version_key(list[i])]),
             LAMBDA sorted_by_version :
            [profile_name |-> profile,
             export_date |-> export_date,
             total_mods |-> total_mods,
             enabled_mods |-> enabled_mods,
             disabled_mods |-> total_mods - enabled_mods,
             unique_authors |-> Len(author_counts),
             top_authors |-> most_common(author_counts, TopN),
             newest_mods |-> newest_of(sorted_by_version),
             oldest_mods |-> oldest_of(sorted_by_version)]))

----------------------------------------------------------------------------
(* export_to_csv: the file is opened with newline='', so the text is       *)
(* written as the writer produces it.                                      *)

Headers == << <<"Author">>, <<"Mod Name">>, <<"Version">>, <<"Enabled">>,
              <<"Description">>, <<"Website">> >>

BlankRow == << <<>> >>

StatsRow(m) == <<m.name, m.author, m.version>>

\* The rows handed to writer.writerow, in order.
csv_rows(list, st) ==
    << << <<"PROFILE STATISTICS">> >>,
       BlankRow,
       << <<"Profile Name:">>, st.profile_name >>,
       << <<"Export Date:">>, st.export_date >>,
       << <<"Total Mods:">>, IntStr(st.total_mods) >>,
       << <<"Enabled Mods:">>, IntStr(st.enabled_mods) >>,
       << <<"Disabled Mods:">>, IntStr(st.disabled_mods) >>,
       << <<"Unique Authors:">>, IntStr(st.unique_authors) >>,
       BlankRow,
       << <<"TOP AUTHORS (by mod count)">> >> >>
    \o [i \in 1..Len(st.top_authors) |->
            <<st.top_authors[i][1], IntStr(st.top_authors[i][2]) \o <<SP, "mods">> >>]
    \o << BlankRow,
          << <<"NEWEST MODS (by version)">> >>,
          << <<"Mod Name">>, <<"Author">>, <<"Version">> >> >>
    \o [i \in 1..Len(st.newest_mods) |-> StatsRow(st.newest_mods[i])]
    \o << BlankRow,
          << <<"OLDEST MODS (by version)">> >>,
          << <<"Mod Name">>, <<"Author">>, <<"Version">> >> >>
    \o [i \in 1..Len(st.oldest_mods) |-> StatsRow(st.oldest_mods[i])]
    \o << BlankRow,
          BlankRow,
          << <<"COMPLETE MOD LIST">> >>,
          BlankRow,
          Headers >>
    \o [i \in 1..Len(list) |->
            <<list[i].author, list[i].name, list[i].version, list[i].enabled,
              list[i].description, list[i].website>>]

\* The text of the file export_to_csv writes.
export_to_csv(list, st) ==
    With(csv_rows(list, st), LAMBDA rows :
        Flatten([i \in 1..Len(rows) |-> writerow(rows[i])]))

----------------------------------------------------------------------------
(* load_csv_for_comparison.                                                *)

\* open(csv_file, 'r'): universal newlines, "\r\n" and "\r" are read as "\n".
TranslateNewlines(text) ==
    Flatten([i \in 1..Len(text) |->
                IF text[i] = CR THEN <<LF>>
                ELSE IF text[i] = LF /\ i > 1 /\ text[i - 1] = CR THEN <<>>
                ELSE <<text[i]>>])

\* f.readlines(): each line keeps its "\n".
readlines(text) ==
    With(text, LAMBDA v :
        With(SelectSeq([i \in 1..Len(v) |-> i], LAMBDA i : v[i] = LF \/ i = Len(v)),
             LAMBDA ends :
            [k \in 1..Len(ends) |->
                SubSeq(v, IF k = 1 THEN 1 ELSE ends[k - 1] + 1, ends[k])]))

HeaderPrefix == <<"Author", DELIM, "Mod Name", DELIM, "Version">>

IsHeaderLine(line) == startswith(strip(line), HeaderPrefix)

\* A faulty variant: without a header line the first line is taken for it.
header_line_idx_or_first(lines) ==
    With({i \in 1..Len(lines) : IsHeaderLine(lines[i])}, LAMBDA found :
        IF found = {} THEN (IF lines = <<>> THEN 0 ELSE 1)
        ELSE CHOOSE i \in found : \A j \in found : i <= j)

\* The index of the first header line, 0 for None.
header_line_idx(lines) ==
    With({i \in 1..Len(lines) : IsHeaderLine(lines[i])}, LAMBDA found :
        IF found = {} THEN 0 ELSE CHOOSE i \in found : \A j \in found : i <= j)

\* One row of csv.DictReader: dict(zip(fieldnames, row)), and restval None
\* for the field names the row is too short for. Of two columns of one name
\* the later decides. (The restkey entry of a row that is too long, d[None],
\* is left out: nothing reads it.)
DictRow(fieldnames, row) ==
    [n \in {fieldnames[i] : i \in 1..Len(fieldnames)} |->
        LET last == CHOOSE i \in 1..Len(fieldnames) :
                        /\ fieldnames[i] = n
                        /\ \A j \in (i + 1)..Len(fieldnames) : fieldnames[j] # n
        IN  IF last <= Len(row) THEN row[last] ELSE None]

\* row.get(name)
get(row, name) == IF name \in DOMAIN row THEN row[name] ELSE None

\* The truth value of a str or None.
Truthy(v) == v # None /\ v # <<>>

RowKey(row) == row[<<"Author">>] \o <<COLON>> \o row[<<"Mod Name">>]

IsValidRow(row) == Truthy(get(row, <<"Author">>)) /\ Truthy(get(row, <<"Mod Name">>))

EmptyDict == [k \in {} |-> <<>>]

\* A faulty variant: the first row of a key is kept.
ModsOf_first_kept(dicts) ==
    With(dicts, LAMBDA ds :
        LET valid == {i \in 1..Len(ds) : IsValidRow(ds[i])}
        IN  [k \in {RowKey(ds[i]) : i \in valid} |->
                ds[CHOOSE i \in valid :
                      /\ RowKey(ds[i]) = k
                      /\ \A j \in valid : RowKey(ds[j]) = k => i <= j]])

\* The mapping built from the rows read: a later row replaces an earlier one
\* of the same key.
ModsOf(dicts) ==
    With(dicts, LAMBDA ds :
        LET valid == {i \in 1..Len(ds) : IsValidRow(ds[i])}
        IN  [k \in {RowKey(ds[i]) : i \in valid} |->
                ds[CHOOSE i \in valid :
                      /\ RowKey(ds[i]) = k
                      /\ \A j \in valid : RowKey(ds[j]) = k => j <= i]])

\* The rows csv.DictReader yields: the first record gives the field names,
\* records without fields (blank lines) are passed over.
DictReader(text) ==
    With(csv_reader(text), LAMBDA records :
        With(SelectSeq(Tail(records), LAMBDA r : r # <<>>), LAMBDA data :
            [i \in 1..Len(data) |-> DictRow(records[1], data[i])]))

load_csv_for_comparison(text) ==
    With(readlines(TranslateNewlines(text)), LAMBDA lines :
        With(header_line_idx(lines), LAMBDA idx :
            IF idx = 0 THEN EmptyDict
            ELSE ModsOf(DictReader(Flatten(SubSeq(lines, idx, Len(lines)))))))

----------------------------------------------------------------------------
(* parse_mod_info. A value of the manifest (YAML) carries its type.        *)

YNull == [t |-> "null"]
YBool(b) == [t |-> "bool", b |-> b]
YInt(n) == [t |-> "int", n |-> n]
YStr(s) == [t |-> "str", s |-> s]
YMap(m) == [t |-> "map", m |-> m]

\* d.get(key, default)
dict_get(d, key, default) == IF key \in DOMAIN d THEN d[key] ELSE default

\* The text an f-string puts for a value.
format(v) ==
    CASE v.t = "int" -> IntStr(v.n)
      [] v.t = "str" -> v.s
      [] v.t = "null" -> <<"None">>
      [] v.t = "bool" -> IF v.b THEN <<"True">> ELSE <<"False">>
      [] v.t = "map" -> <<"{...}">>

\* The truth value of a value.
truth(v) ==
    CASE v.t = "int" -> v.n # 0
      [] v.t = "str" -> v.s # <<>>
      [] v.t = "null" -> FALSE
      [] v.t = "bool" -> v.b
      [] v.t = "map" -> DOMAIN v.m # {}

Returned(value) == [raised |-> FALSE, exc |-> "", value |-> value]

Raised(exc) == [raised |-> TRUE, exc |-> exc, value |-> <<>>]

\* version.get(...) is an attribute of a mapping only.
parse_mod_info(m) ==
    LET version == dict_get(m, "versionNumber", YMap(EmptyDict))
    IN  IF version.t # "map" THEN Raised("AttributeError")
        ELSE LET version_str ==
                     format(dict_get(version.m, "major", YInt(0))) \o <<DOT>>
                     \o format(dict_get(version.m, "minor", YInt(0))) \o <<DOT>>
                     \o format(dict_get(version.m, "patch", YInt(0)))
             IN  Returned(
                   [name |-> dict_get(m, "displayName",
                                      dict_get(m, "name", YStr(<<"Unknown">>))),
                    author |-> dict_get(m, "authorName", YStr(<<"Unknown">>)),
                    version |-> YStr(version_str),
                    description |-> dict_get(m, "description", YStr(<<>>)),
                    enabled |-> YStr(IF truth(dict_get(m, "enabled", YBool(FALSE)))
                                    THEN <<"Yes">> ELSE <<"No">>),
                    website |-> dict_get(m, "websiteUrl", YStr(<<>>))])

----------------------------------------------------------------------------
(* compare_exports, from the two files chosen on.                          *)

\* A faulty variant: every key of the newer file counts as added.
added_keys_all(keys1, keys2) == keys1

added_keys(keys1, keys2) == keys1 \ keys2

\* A faulty variant: every key of the older file counts as removed.
removed_keys_all(keys1, keys2) == keys2

removed_keys(keys1, keys2) == keys2 \ keys1

common_keys(keys1, keys2) == keys1 \cap keys2

\* A faulty variant: the newer file's value first.
change_triple_newer_first(key, m1, m2, field) == <<key, m1[key][field], m2[key][field]>>

\* (key, old, new): the older file's value first.
change_triple(key, m1, m2, field) == <<key, m2[key][field], m1[key][field]>>

\* The triples of the keys whose field differs between the two mappings. The
\* code appends to a list while it iterates over the set of common keys, one
\* triple a key at most: the list is modelled by the set of its elements.
changes(m1, m2, keys, field) ==
    {change_triple(k, m1, m2, field) :
        k \in {c \in keys : m1[c][field] # m2[c][field]}}

\* mods[key]['Version'] or mods[key]['Enabled'] is a KeyError on a row of a
\* file whose header line has no such column.
HasColumns(m, keys) ==
    \A k \in keys : {<<"Version">>, <<"Enabled">>} \subseteq DOMAIN m[k]

----------------------------------------------------------------------------
(* The inputs.                                                             *)

\* A canonical record, as parse_mod_info returns it for text fields.
Rec(author, name, version, enabled, description) ==
    [name |-> name, author |-> author, version |-> version,
     description |-> description, enabled |-> enabled, website |-> <<>>]

Yes == <<"Yes">>
No == <<"No">>

V100 == <<"1", DOT, "0", DOT, "0">>
V200 == <<"2", DOT, "0", DOT, "0">>
V900 == <<"9", DOT, "0", DOT, "0">>
V1000 == <<"1", "0", DOT, "0", DOT, "0">>

\* All sequences over S of length at most n.
SeqsUpTo(S, n) == UNION {[1..k -> S] : k \in 0..n}

Injective(q) == \A i, j \in 1..Len(q) : q[i] = q[j] => i = j

\* The manifest entries: every key absent, null or of some type.
Absent == [t |-> "absent"]

RawChoices ==
    [displayName : {Absent, YNull, YStr(<<"D">>)},
     name : {Absent, YStr(<<"N">>)},
     authorName : {Absent, YStr(<<"A">>)},
     versionNumber : {Absent, YNull, YStr(<<"1", DOT, "2">>), YMap(EmptyDict),
                      YMap([major |-> YInt(1)]),
                      YMap([major |-> YInt(5), minor |-> YInt(4),
                            patch |-> YInt(2333)])},
     enabled : {Absent, YNull, YBool(TRUE), YBool(FALSE)},
     description : {Absent, YStr(<<"text">>)},
     websiteUrl : {Absent, YStr(<<"url">>)}]

RawOf(choice) == [k \in {f \in DOMAIN choice : choice[f].t # "absent"} |-> choice[k]]

RawMods == {RawOf(c) : c \in RawChoices}

\* The records of the statistics runs: two authors' mods tie on a version,
\* one author has two mods, versions of two and four parts and one that is
\* no number.
MaxMods == 7

StatsPool ==
    {Rec(<<"a1">>, <<"m1">>, V1000, Yes, <<>>),
     Rec(<<"a2">>, <<"m2">>, V900, Yes, <<>>),
     Rec(<<"a1">>, <<"m3">>, V900, No, <<>>),
     Rec(<<"a3">>, <<"m4">>, <<"1", DOT, "2">>, Yes, <<>>),
     Rec(<<"a4">>, <<"m5">>, <<"1", DOT, "x", DOT, "0">>, No, <<>>),
     Rec(<<"a5">>, <<"m6">>, V100, Yes, <<>>),
     Rec(<<"a6">>, <<"m7">>, <<"1", DOT, "2", DOT, "3", DOT, "4">>, Yes, <<>>)}

\* A manifest lists a mod once.
StatsLists == {q \in SeqsUpTo(StatsPool, MaxMods) : Injective(q)}

\* The records of the export runs: a key twice, fields the writer quotes,
\* line breaks in a field, the header text in a name, a colon in a field,
\* a blank author.
MaxExported == 2

ExportPool ==
    {Rec(<<"A">>, <<"X">>, V100, Yes, <<>>),
     Rec(<<"A">>, <<"X">>, V200, No, <<>>),
     Rec(<<"B">>, <<"Y", DELIM, QUOTE, "Z">>, V100, Yes, <<"d", DELIM, "e">>),
     Rec(<<"A", CR, "B">>, <<"X">>, V100, Yes, <<>>),
     Rec(<<"A", LF, "B">>, <<"X">>, V100, No, <<>>),
     Rec(<<"C">>, <<"X", LF, "Author", DELIM, "Mod Name", DELIM, "Version">>, V100, Yes, <<>>),
     Rec(<<"A", COLON, "B">>, <<"C">>, V100, Yes, <<>>),
     Rec(<<"A">>, <<"B", COLON, "C">>, V200, Yes, <<>>),
     Rec(<<"D">>, <<"W">>, V100, No, <<"d", CR, "e">>),
     Rec(<<>>, <<"X">>, V100, Yes, <<>>)}

ExportLists == SeqsUpTo(ExportPool, MaxExported)

\* The lines of the files read: the header line as written and indented,
\* the header of the statistics tables, rows with and without an author or
\* a name, a key twice, a blank line.
MaxLines == 3

LinePool ==
    {Join(Headers, <<DELIM>>),
     <<SP>> \o Join(Headers, <<DELIM>>),
     <<"Mod Name", DELIM, "Author", DELIM, "Version">>,
     <<"A", DELIM, "X", DELIM>> \o V100 \o <<DELIM, "Yes", DELIM, DELIM>>,
     <<"A", DELIM, "X", DELIM>> \o V200 \o <<DELIM, "No">>,
     <<"B", DELIM, "Y", DELIM>> \o V200 \o <<DELIM, "Yes">>,
     <<DELIM, "X", DELIM>> \o V100 \o <<DELIM, "Yes">>,
     <<"A", DELIM, DELIM>> \o V100 \o <<DELIM, "No">>,
     <<"A">>,
     <<"A", COLON, "B", DELIM, "C", DELIM>> \o V100 \o <<DELIM, "Yes">>,
     <<"A", DELIM, "B", COLON, "C", DELIM>> \o V200 \o <<DELIM, "No">>,
     <<>>}

ReaderTexts ==
    {Flatten([i \in 1..Len(q) |-> q[i] \o <<CR, LF>>]) : q \in SeqsUpTo(LinePool, MaxLines)}

\* The files compared: exports of lists of these records.
MaxCompared == 2

ComparePool ==
    {Rec(<<"A">>, <<"X">>, V100, Yes, <<>>),
     Rec(<<"A">>, <<"X">>, V100, No, <<>>),
     Rec(<<"A">>, <<"X">>, V200, Yes, <<>>),
     Rec(<<"B">>, <<"Y">>, V200, Yes, <<>>),
     Rec(<<"C">>, <<"Z">>, V100, No, <<>>)}

DefaultProfile == <<"Default">>

ExportOf(list) == export_to_csv(list, calculate_statistics(list, DefaultProfile))

CompareFiles ==
    {ExportOf(q) : q \in {l \in SeqsUpTo(ComparePool, MaxCompared) : Injective(l)}}

----------------------------------------------------------------------------
(* The operations.                                                         *)

\* Outside a run of main: odfpy is there, nothing was typed or written.
NoSession ==
    /\ HAS_ODF = TRUE
    /\ typed = ""
    /\ csv_files = 0
    /\ idx1_ok = FALSE
    /\ csv_out = "none"
    /\ ods_out = "none"

\* The locals of the operations, before any of them has run.
NoResults ==
    /\ parsed = Returned(<<>>)
    /\ profile_name = DefaultProfile
    /\ stats = <<>>
    /\ mods = EmptyDict
    /\ mods1 = EmptyDict
    /\ mods2 = EmptyDict
    /\ added = {}
    /\ removed = {}
    /\ common = {}
    /\ updated = {}
    /\ enabled_changes = {}
    /\ error = ""

\* What no operation has set.
Idle == NoResults /\ NoSession

ParseModInfo ==
    /\ pc = "entry"
    /\ parsed' = parse_mod_info(mod)
    /\ error' = parsed'.exc
    /\ pc' = "parsed"
    /\ UNCHANGED session
    /\ UNCHANGED <<mod, mods_list, profile_name, stats, csv_text, mods, file1, file2,
                   mods1, mods2, added, removed, common, updated, enabled_changes>>

CalculateStatistics ==
    /\ pc = "list"
    /\ stats' = calculate_statistics(mods_list, profile_name)
    /\ pc' = "stats"
    /\ UNCHANGED session
    /\ UNCHANGED <<mod, parsed, mods_list, profile_name, csv_text, mods, file1, file2,
                   mods1, mods2, added, removed, common, updated, enabled_changes,
                   error>>

ExportToCsv ==
    /\ pc = "stats"
    /\ csv_text' = export_to_csv(mods_list, stats)
    /\ pc' = "file"
    /\ UNCHANGED session
    /\ UNCHANGED <<mod, parsed, mods_list, profile_name, stats, mods, file1, file2,
                   mods1, mods2, added, removed, common, updated, enabled_changes,
                   error>>

LoadCsvForComparison ==
    /\ pc = "file"
    /\ mods' = load_csv_for_comparison(csv_text)
    /\ pc' = "read"
    /\ UNCHANGED session
    /\ UNCHANGED <<mod, parsed, mods_list, profile_name, stats, csv_text, file1, file2,
                   mods1, mods2, added, removed, common, updated, enabled_changes,
                   error>>

\* compare_exports from line 590 on: file1 is the newer file, file2 the older.
CompareExports ==
    /\ pc = "chosen"
    /\ mods1' = load_csv_for_comparison(file1)
    /\ mods2' = load_csv_for_comparison(file2)
    /\ LET keys1 == DOMAIN mods1'
           keys2 == DOMAIN mods2'
           both == common_keys(keys1, keys2)
       IN  /\ added' = added_keys(keys1, keys2)
           /\ removed' = removed_keys(keys1, keys2)
           /\ common' = both
           /\ IF HasColumns(mods1', both) /\ HasColumns(mods2', both)
              THEN /\ updated' = changes(mods1', mods2', both, <<"Version">>)
                   /\ enabled_changes' = changes(mods1', mods2', both, <<"Enabled">>)
                   /\ error' = ""
              ELSE /\ updated' = {}
                   /\ enabled_changes' = {}
                   /\ error' = "KeyError"
    /\ pc' = "compared"
    /\ UNCHANGED session
    /\ UNCHANGED <<mod, parsed, mods_list, profile_name, stats, csv_text, mods, file1,
                   file2>>

----------------------------------------------------------------------------
(* The specifications: one per operation, over the inputs above.           *)

InitNormalize ==
    /\ pc = "entry"
    /\ mod \in RawMods
    /\ mods_list = <<>>
    /\ csv_text = <<>>
    /\ file1 = <<>>
    /\ file2 = <<>>
    /\ Idle

NextNormalize == ParseModInfo

SpecNormalize == InitNormalize /\ [][NextNormalize]_vars

InitStats ==
    /\ pc = "list"
    /\ mod = EmptyDict
    /\ mods_list \in StatsLists
    /\ csv_text = <<>>
    /\ file1 = <<>>
    /\ file2 = <<>>
    /\ Idle

NextStats == CalculateStatistics

SpecStats == InitStats /\ [][NextStats]_vars

InitExport ==
    /\ pc = "list"
    /\ mod = EmptyDict
    /\ mods_list \in ExportLists
    /\ csv_text = <<>>
    /\ file1 = <<>>
    /\ file2 = <<>>
    /\ Idle

NextExport == CalculateStatistics \/ ExportToCsv \/ LoadCsvForComparison

SpecExport == InitExport /\ [][NextExport]_vars

InitReader ==
    /\ pc = "file"
    /\ mod = EmptyDict
    /\ mods_list = <<>>
    /\ csv_text \in ReaderTexts
    /\ file1 = <<>>
    /\ file2 = <<>>
    /\ Idle

NextReader == LoadCsvForComparison

SpecReader == InitReader /\ [][NextReader]_vars

InitCompare ==
    /\ pc = "chosen"
    /\ mod = EmptyDict
    /\ mods_list = <<>>
    /\ csv_text = <<>>
    /\ Idle
    /\ file1 \in CompareFiles
    /\ file2 \in CompareFiles

NextCompare == CompareExports

SpecCompare == InitCompare /\ [][NextCompare]_vars

----------------------------------------------------------------------------
(* main: the menu loop, export_mode and compare_exports with their prompts. *)

\* input() raised KeyboardInterrupt.
Interrupt == "^C"

\* The profiles found, and the mods.yml of each: one mod, no mod, a mod whose
\* versionNumber is null, no file.
Profiles == << <<"Default">>, <<"Empty">>, <<"Broken">>, <<"Gone">> >>

Missing == "missing"

Manifest(profile) ==
    CASE profile = <<"Default">> ->
            << [displayName |-> YStr(<<"X">>), authorName |-> YStr(<<"A">>),
                versionNumber |-> YMap([major |-> YInt(1)]),
                enabled |-> YBool(TRUE)] >>
      [] profile = <<"Empty">> -> <<>>
      [] profile = <<"Broken">> ->
            << [name |-> YStr(<<"N">>), versionNumber |-> YNull] >>
      [] OTHER -> Missing

\* The record parse_mod_info returned, its fields being strings.
TextRecord(v) ==
    [name |-> v.name.s, author |-> v.author.s, version |-> v.version.s,
     description |-> v.description.s, enabled |-> v.enabled.s,
     website |-> v.website.s]

\* The most files csv_files/ comes to hold.
MaxFiles == 2

\* The content of the files of csv_files/.
SessionFiles ==
    {ExportOf(<<r>>) : r \in {Rec(<<"A">>, <<"X">>, V100, Yes, <<>>),
                              Rec(<<"A">>, <<"X">>, V200, No, <<>>)}}

\* A prompt got choice and the run goes on at step next.
Prompt(choice, next) ==
    /\ typed' = choice
    /\ pc' = next
    /\ UNCHANGED <<mod, parsed, mods_list, profile_name, stats, csv_text, mods,
                   file1, file2, mods1, mods2, added, removed, common, updated,
                   enabled_changes, error, HAS_ODF, csv_files, idx1_ok, csv_out,
                   ods_out>>

\* export_mode or compare_exports returns to the loop of main after a prompt
\* got choice: its locals are gone.
Return(choice) ==
    /\ typed' = choice
    /\ pc' = "select_mode"
    /\ parsed' = Returned(<<>>)
    /\ mods_list' = <<>>
    /\ profile_name' = DefaultProfile
    /\ stats' = <<>>
    /\ file1' = <<>>
    /\ file2' = <<>>
    /\ mods1' = EmptyDict
    /\ mods2' = EmptyDict
    /\ added' = {}
    /\ removed' = {}
    /\ common' = {}
    /\ updated' = {}
    /\ enabled_changes' = {}
    /\ idx1_ok' = FALSE
    /\ csv_out' = "none"
    /\ ods_out' = "none"
    /\ UNCHANGED <<mod, csv_text, mods, error, HAS_ODF, csv_files>>

\* An exception nothing catches leaves main: the process ends with it.
Uncaught(choice, exc) ==
    /\ typed' = choice
    /\ pc' = "uncaught"
    /\ error' = exc
    /\ UNCHANGED <<mod, parsed, mods_list, profile_name, stats, csv_text, mods,
                   file1, file2, mods1, mods2, added, removed, common, updated,
                   enabled_changes, HAS_ODF, csv_files, idx1_ok, csv_out, ods_out>>

\* select_mode, and the branch of main on its result: an interrupt is
\* answered with 3, on which main leaves its loop.
SelectMode ==
    /\ pc = "select_mode"
    /\ \E choice \in {"1", "2", "3", "x", Interrupt} :
          CASE choice = "1" -> Prompt(choice, "select_profile")
            [] choice = "2" ->
                  Prompt(choice, IF csv_files < 2 THEN "few_files" ELSE "first_file")
            [] choice \in {"3", Interrupt} -> Prompt(choice, "exited")
            [] OTHER -> Prompt(choice, "select_mode")

\* select_profile, and export_mode on its result.
SelectProfile ==
    /\ pc = "select_profile"
    /\ \E choice \in {"0", "1", "2", "3", "4", "9", "x", Interrupt} :
          CASE choice \in {"0", Interrupt} -> Return(choice)
            [] choice \in {"9", "x"} -> Prompt(choice, "select_profile")
            [] OTHER ->
                  /\ typed' = choice
                  /\ profile_name' = Profiles[int(<<choice>>)]
                  /\ pc' = "load_mods"
                  /\ UNCHANGED <<mod, parsed, mods_list, stats, csv_text, mods,
                                 file1, file2, mods1, mods2, added, removed,
                                 common, updated, enabled_changes, error, HAS_ODF,
                                 csv_files, idx1_ok, csv_out, ods_out>>

\* export_mode from load_mods to the file names: sys.exit(1) without a
\* mods.yml, the pause of line 666 without mods, the exception of
\* parse_mod_info if it raises. (sort_mods has nothing to do on the one
\* record of these manifests.)
LoadMods ==
    /\ pc = "load_mods"
    /\ LET mods_data == Manifest(profile_name)
           results == [i \in 1..Len(mods_data) |-> parse_mod_info(mods_data[i])]
           records == [i \in 1..Len(mods_data) |-> TextRecord(results[i].value)]
       IN  IF mods_data = Missing
           THEN /\ pc' = "exited"
                /\ error' = "SystemExit"
                /\ UNCHANGED <<mods_list, stats>>
           ELSE IF mods_data = <<>>
           THEN /\ pc' = "no_mods"
                /\ UNCHANGED <<mods_list, stats, error>>
           ELSE IF \E i \in 1..Len(mods_data) : results[i].raised
           THEN /\ pc' = "uncaught"
                /\ error' = "AttributeError"
                /\ UNCHANGED <<mods_list, stats>>
           ELSE /\ pc' = "export_csv"
                /\ mods_list' = records
                /\ stats' = calculate_statistics(records, profile_name)
                /\ UNCHANGED error
    /\ UNCHANGED <<mod, parsed, profile_name, csv_text, mods, file1, file2, mods1,
                   mods2, added, removed, common, updated, enabled_changes,
                   session>>

\* export_to_csv(mods_list, csv_file, stats), line 690: the file is written,
\* or open() or a write raises OSError, which nothing catches.
ExportCsvStep ==
    /\ pc = "export_csv"
    /\ \/ /\ csv_text' = export_to_csv(mods_list, stats)
          /\ csv_out' = "written"
          /\ csv_files' = IF csv_files < MaxFiles THEN csv_files + 1 ELSE csv_files
          /\ pc' = "export_ods"
          /\ UNCHANGED error
       \/ /\ csv_out' = "failed"
          /\ pc' = "uncaught"
          /\ error' = "OSError"
          /\ UNCHANGED <<csv_text, csv_files>>
    /\ UNCHANGED <<mod, parsed, mods_list, profile_name, stats, mods, file1, file2,
                   mods1, mods2, added, removed, common, updated, enabled_changes,
                   HAS_ODF, typed, idx1_ok, ods_out>>

\* export_to_ods(mods_list, ods_file, stats), line 691: skipped with a message
\* without odfpy; else the file is saved, or doc.save raises OSError.
ExportOdsStep ==
    /\ pc = "export_ods"
    /\ \/ /\ ~HAS_ODF
          /\ ods_out' = "skipped"
          /\ pc' = "export_done"
          /\ UNCHANGED error
       \/ /\ HAS_ODF
          /\ ods_out' = "written"
          /\ pc' = "export_done"
          /\ UNCHANGED error
       \/ /\ HAS_ODF
          /\ ods_out' = "failed"
          /\ pc' = "uncaught"
          /\ error' = "OSError"
    /\ UNCHANGED <<mod, parsed, mods_list, profile_name, stats, csv_text, mods,
                   file1, file2, mods1, mods2, added, removed, common, updated,
                   enabled_changes, HAS_ODF, typed, csv_files, idx1_ok, csv_out>>

\* input("Press Enter to return to main menu...") of lines 552, 649, 666 and
\* 705: no handler is around it.
PressEnter ==
    /\ pc \in {"few_files", "compared", "no_mods", "export_done"}
    /\ \/ Return("enter")
       \/ Uncaught(Interrupt, "KeyboardInterrupt")

\* The same prompt at line 575, inside the try of compare_exports.
PressEnterInvalid ==
    /\ pc = "invalid"
    /\ \E choice \in {"enter", Interrupt} : Return(choice)

\* input("First file (newer): "), lines 563-566.
FirstFile ==
    /\ pc = "first_file"
    /\ \E choice \in {"0", "1", "2", "9", "x", Interrupt} :
          IF choice \in {"0", "x", Interrupt} THEN Return(choice)
          ELSE /\ typed' = choice
               /\ idx1_ok' = (int(<<choice>>) <= csv_files)
               /\ pc' = "second_file"
               /\ UNCHANGED <<mod, parsed, mods_list, profile_name, stats, csv_text,
                              mods, file1, file2, mods1, mods2, added, removed,
                              common, updated, enabled_changes, error, HAS_ODF,
                              csv_files, csv_out, ods_out>>

\* input("Second file (older): ") and the choice of the files, lines 568-583.
SecondFile ==
    /\ pc = "second_file"
    /\ \E choice \in {"0", "1", "2", "9", "x", Interrupt} :
          IF choice \in {"0", "x", Interrupt} THEN Return(choice)
          ELSE IF idx1_ok /\ int(<<choice>>) <= csv_files
          THEN /\ typed' = choice
               /\ file1' \in SessionFiles
               /\ file2' \in SessionFiles
               /\ pc' = "chosen"
               /\ UNCHANGED <<mod, parsed, mods_list, profile_name, stats, csv_text,
                              mods, mods1, mods2, added, removed, common, updated,
                              enabled_changes, error, HAS_ODF, csv_files, idx1_ok,
                              csv_out, ods_out>>
          ELSE Prompt(choice, "invalid")

InitSession ==
    /\ pc = "select_mode"
    /\ HAS_ODF \in BOOLEAN
    /\ csv_files \in 0..MaxFiles
    /\ typed = ""
    /\ idx1_ok = FALSE
    /\ csv_out = "none"
    /\ ods_out = "none"
    /\ mod = EmptyDict
    /\ mods_list = <<>>
    /\ csv_text = <<>>
    /\ file1 = <<>>
    /\ file2 = <<>>
    /\ NoResults

NextSession ==
    \/ SelectMode
    \/ SelectProfile
    \/ LoadMods
    \/ ExportCsvStep
    \/ ExportOdsStep
    \/ PressEnter
    \/ PressEnterInvalid
    \/ FirstFile
    \/ SecondFile
    \/ CompareExports

SpecSession == InitSession /\ [][NextSession]_vars

----------------------------------------------------------------------------
(* The properties.                                                         *)

\* The key "Author:Mod Name" of a record.
KeyOf(r) == r.author \o <<COLON>> \o r.name

KeyAX == <<"A", COLON, "X">>
KeyBY == <<"B", COLON, "Y">>

\* C1: after compare_exports, added = keys(newer) - keys(older), removed =
\* keys(older) - keys(newer) and common = keys(newer) & keys(older); the three
\* sets are pairwise disjoint and their union is keys(newer) | keys(older).
C1_KeySetsPartition ==
    pc = "compared" =>
        LET newer == DOMAIN mods1
            older == DOMAIN mods2
        IN  /\ added = {k \in newer : k \notin older}
            /\ removed = {k \in older : k \notin newer}
            /\ common = {k \in newer : k \in older}
            /\ added \cap removed = {}
            /\ added \cap common = {}
            /\ removed \cap common = {}
            /\ added \cup common \cup removed = newer \cup older

\* A comparison in which each of the three sets has a key.
C1_Witness ==
    /\ pc = "compared"
    /\ added # {}
    /\ removed # {}
    /\ common # {}

\* The files of the scenario of C2.
ScenarioNewer == ExportOf(<<Rec(<<"A">>, <<"X">>, V100, Yes, <<>>)>>)

ScenarioOlder ==
    ExportOf(<<Rec(<<"A">>, <<"X">>, V100, No, <<>>),
               Rec(<<"B">>, <<"Y">>, V200, Yes, <<>>)>>)

\* Newer and older differ on a key in the version and in the enabled flag.
BothNewer == ExportOf(<<Rec(<<"A">>, <<"X">>, V200, Yes, <<>>)>>)

BothOlder == ExportOf(<<Rec(<<"A">>, <<"X">>, V100, No, <<>>)>>)

\* C2: for every key k of both snapshots, (k, older Version, newer Version)
\* is in the version-changed list iff the two Version strings differ, and
\* (k, older Enabled, newer Enabled) is in the enabled-changed list iff the
\* two Enabled strings differ; the lists hold nothing else, so no triple of a
\* key outside the common set; a key can be in both lists; newer {A:X 1.0.0
\* Yes} and older {A:X 1.0.0 No, B:Y 2.0.0 Yes} give added = {}, removed =
\* {B:Y}, version-changed = {}, enabled-changed = {(A:X, No, Yes)}.
C2_ChangeTriples ==
    pc = "compared" =>
        LET Older(k, f) == mods2[k][f]
            Newer(k, f) == mods1[k][f]
            Triple(k, f) == <<k, Older(k, f), Newer(k, f)>>
            both == DOMAIN mods1 \cap DOMAIN mods2
        IN  /\ error = ""
            /\ \A k \in both :
                  /\ Triple(k, <<"Version">>) \in updated
                        <=> Older(k, <<"Version">>) # Newer(k, <<"Version">>)
                  /\ Triple(k, <<"Enabled">>) \in enabled_changes
                        <=> Older(k, <<"Enabled">>) # Newer(k, <<"Enabled">>)
            /\ \A t \in updated : t[1] \in both /\ t = Triple(t[1], <<"Version">>)
            /\ \A t \in enabled_changes :
                  t[1] \in both /\ t = Triple(t[1], <<"Enabled">>)
            /\ (file1 = ScenarioNewer /\ file2 = ScenarioOlder) =>
                  /\ added = {}
                  /\ removed = {KeyBY}
                  /\ updated = {}
                  /\ enabled_changes = {<<KeyAX, No, Yes>>}
            /\ (file1 = BothNewer /\ file2 = BothOlder) =>
                  /\ updated = {<<KeyAX, V100, V200>>}
                  /\ enabled_changes = {<<KeyAX, No, Yes>>}

\* The scenario of C2 has been compared.
C2_Witness ==
    /\ pc = "compared"
    /\ file1 = ScenarioNewer
    /\ file2 = ScenarioOlder
    /\ removed = {KeyBY}
    /\ enabled_changes = {<<KeyAX, No, Yes>>}

\* The four values a row of the mapping is compared on.
Matches(row, r) ==
    /\ get(row, <<"Author">>) = r.author
    /\ get(row, <<"Mod Name">>) = r.name
    /\ get(row, <<"Version">>) = r.version
    /\ get(row, <<"Enabled">>) = r.enabled

\* The mapping read has one entry for each record of the list, and no other.
Recovered(m, list) ==
    /\ Cardinality(DOMAIN m) = Len(list)
    /\ \A i \in 1..Len(list) : \E k \in DOMAIN m : Matches(m[k], list[i])
    /\ \A k \in DOMAIN m : \E i \in 1..Len(list) : Matches(m[k], list[i])

AllNonBlank(list) ==
    \A i \in 1..Len(list) : list[i].author # <<>> /\ list[i].name # <<>>

DistinctKeys(list) ==
    \A i, j \in 1..Len(list) : KeyOf(list[i]) = KeyOf(list[j]) => i = j

HasCR(t) == \E i \in 1..Len(t) : t[i] = CR

NoCarriageReturn(list) ==
    \A i \in 1..Len(list) :
        /\ ~HasCR(list[i].author)
        /\ ~HasCR(list[i].name)
        /\ ~HasCR(list[i].version)
        /\ ~HasCR(list[i].enabled)

\* What export_to_csv writes before the header row of the complete list.
PreambleText(list, st) ==
    With(csv_rows(list, st), LAMBDA rows :
        Flatten([i \in 1..(Len(rows) - Len(list) - 1) |-> writerow(rows[i])]))

\* No line of it, surrounding whitespace aside, begins with the header prefix.
NoEarlierHeader(list, st) ==
    With(readlines(TranslateNewlines(PreambleText(list, st))), LAMBDA lines :
        \A i \in 1..Len(lines) : ~startswith(strip(lines[i]), HeaderPrefix))

\* C3 as stated: for every list of N records with non-blank author and name,
\* load_csv_for_comparison of the file export_to_csv wrote has exactly N
\* entries, one per record, with the record's Author, Mod Name, Version and
\* Enabled. Two records of one key, a carriage return in a field and a
\* header-like line in the statistics refute it.
C3_RoundTripAsStated ==
    (pc = "read" /\ AllNonBlank(mods_list)) => Recovered(mods, mods_list)

\* C3: the round trip of C3_RoundTripAsStated holds for the lists whose keys
\* "author:name" are pairwise distinct, whose authors, names, versions and
\* enabled values hold no carriage return, and whose file has no line before
\* the header row of the complete list that begins, surrounding whitespace
\* aside, with "Author,Mod Name,Version".
C3_RoundTrip ==
    (/\ pc = "read"
     /\ AllNonBlank(mods_list)
     /\ DistinctKeys(mods_list)
     /\ NoCarriageReturn(mods_list)
     /\ NoEarlierHeader(mods_list, stats))
    => /\ Recovered(mods, mods_list)
       /\ \A i \in 1..Len(mods_list) :
             /\ KeyOf(mods_list[i]) \in DOMAIN mods
             /\ Matches(mods[KeyOf(mods_list[i])], mods_list[i])

\* Two records read back, one with a name the writer quotes (a comma and a
\* quote), one with a line feed in the author.
C3_Witness ==
    /\ pc = "read"
    /\ Len(mods_list) = 2
    /\ AllNonBlank(mods_list)
    /\ DistinctKeys(mods_list)
    /\ NoCarriageReturn(mods_list)
    /\ NoEarlierHeader(mods_list, stats)
    /\ \E i \in 1..2 : \E c \in 1..Len(mods_list[i].name) : mods_list[i].name[c] = QUOTE
    /\ \E i \in 1..2 : \E c \in 1..Len(mods_list[i].author) : mods_list[i].author[c] = LF
    /\ Cardinality(DOMAIN mods) = 2

SixFields == {"name", "author", "version", "description", "enabled", "website"}

\* C4 as stated: parse_mod_info never raises and returns a record with all six
\* fields, for every raw mapping: empty, with any subset of the keys, with
\* null or ill-typed values, a versionNumber that is no mapping included.
C4_NeverRaises ==
    pc = "parsed" => (~parsed.raised /\ DOMAIN parsed.value = SixFields)

\* The name C5 states: displayName if present and not null, else name, else
\* "Unknown".
StatedName(m) ==
    IF "displayName" \in DOMAIN m /\ m["displayName"] # YNull THEN m["displayName"]
    ELSE IF "name" \in DOMAIN m THEN m["name"]
    ELSE YStr(<<"Unknown">>)

\* C5 as stated: where parse_mod_info returns, the name of the record is the
\* raw displayName if that key is present and not null, otherwise the raw
\* name, otherwise "Unknown"; displayName null and name "N" give "N".
C5_NameAsStated ==
    (pc = "parsed" /\ ~parsed.raised) => parsed.value.name = StatedName(mod)

\* The lines of a text, as the reader sees them.
LinesOfText(text) == readlines(TranslateNewlines(text))

\* C6: a text without a line whose content (the line without the whitespace
\* around it, which is how the reader looks at a line) begins with
\* "Author,Mod Name,Version" is read as the empty mapping, without an
\* exception, whatever its other lines are (the empty text included).
C6_NoHeader ==
    (/\ pc = "read"
     /\ \A i \in 1..Len(LinesOfText(csv_text)) :
           ~startswith(lstrip(LinesOfText(csv_text)[i]), HeaderPrefix))
    => (mods = EmptyDict /\ error = "")

\* A text read whose first line is the header of the statistics tables, with
\* rows under it, and no header line.
C6_Witness ==
    /\ pc = "read"
    /\ Len(LinesOfText(csv_text)) >= 2
    /\ startswith(csv_text, <<"Mod Name", DELIM, "Author", DELIM, "Version">>)
    /\ \A i \in 1..Len(LinesOfText(csv_text)) :
          ~startswith(lstrip(LinesOfText(csv_text)[i]), HeaderPrefix)
    /\ mods = EmptyDict

\* The key C7 states: three integers, and (0, 0, 0) for anything else.
StatedKey(version) ==
    With(split(version, DOT), LAMBDA parts :
        IF Len(parts) = 3 /\ \A i \in 1..3 : IsInt(parts[i])
        THEN [i \in 1..3 |-> int(parts[i])]
        ELSE <<0, 0, 0>>)

\* C7 as stated: the sort key of a record is the 3-tuple of the integers of
\* its version split on ".", and (0, 0, 0) when a component is no number or
\* the number of components is wrong ("1.2", "1.2.3.4").
C7_KeyAsStated ==
    pc = "stats" =>
        \A i \in 1..Len(mods_list) :
            version_key(mods_list[i]) = StatedKey(mods_list[i].version)

\* The keys of the records of the list, by index.
KeysOf(list) == [i \in 1..Len(list) |-> version_key(list[i])]

\* The index in the list of a record of it (a list holds a record once).
IndexIn(list, r) == CHOOSE i \in 1..Len(list) : list[i] = r

\* The indices in the list of the records of a selection of it.
Indices(list, sel) == [p \in 1..Len(sel) |-> IndexIn(list, sel[p])]

\* sel holds min(5, N) records of the list, each once.
IsSelection(list, sel) ==
    /\ Len(sel) = Min(TopN, Len(list))
    /\ \A p \in 1..Len(sel) : \E i \in 1..Len(list) : list[i] = sel[p]
    /\ \A p, q \in 1..Len(sel) : sel[p] = sel[q] => p = q

\* C8: newest_mods is the first min(5, N) records of the input sorted
\* descending by the tuple version_key parses: no record is followed by one of
\* a greater tuple, no record left out has a greater tuple than one that is
\* in, records of equal tuples keep the order of the input; the tuples are
\* compared as integers, so a record of version "10.0.0" ranks above every
\* record of version "9.0.0".
C8_Newest ==
    pc = "stats" =>
        With(KeysOf(mods_list), LAMBDA key :
        With(Indices(mods_list, stats.newest_mods), LAMBDA at :
            LET chosen == {at[p] : p \in 1..Len(at)}
            IN  /\ IsSelection(mods_list, stats.newest_mods)
                /\ \A p, q \in 1..Len(at) :
                      p < q => /\ ~TupleLess(key[at[p]], key[at[q]])
                               /\ key[at[p]] = key[at[q]] => at[p] < at[q]
                /\ \A i \in (1..Len(mods_list)) \ chosen : \A p \in 1..Len(at) :
                      /\ ~TupleLess(key[at[p]], key[i])
                      /\ key[at[p]] = key[i] => at[p] < i
                /\ \A p, q \in 1..Len(at) :
                      (/\ mods_list[at[p]].version = V1000
                       /\ mods_list[at[q]].version = V900) => p < q
                /\ \A i \in (1..Len(mods_list)) \ chosen : \A p \in 1..Len(at) :
                      ~(/\ mods_list[i].version = V1000
                        /\ mods_list[at[p]].version = V900)))

\* More than five records, "9.0.0" before "10.0.0" in the input, and
\* "10.0.0" at the head of newest_mods.
C8_Witness ==
    /\ pc = "stats"
    /\ Len(mods_list) > TopN
    /\ \E i, j \in 1..Len(mods_list) :
          i < j /\ mods_list[i].version = V900 /\ mods_list[j].version = V1000
    /\ stats.newest_mods[1].version = V1000

\* C9 as stated: oldest_mods is the first five records of the input sorted
\* ascending by the parsed tuple (a sort that keeps the input's order among
\* equal tuples, as sorted() does), for lists with equal tuples and lists of
\* more than five records too. Records of equal tuples refute it.
C9_OldestAsStated ==
    pc = "stats" =>
        With(KeysOf(mods_list), LAMBDA key :
        With(Indices(mods_list, stats.oldest_mods), LAMBDA at :
            LET chosen == {at[p] : p \in 1..Len(at)}
            IN  /\ IsSelection(mods_list, stats.oldest_mods)
                /\ \A p, q \in 1..Len(at) :
                      p < q => /\ ~TupleLess(key[at[q]], key[at[p]])
                               /\ key[at[p]] = key[at[q]] => at[p] < at[q]
                /\ \A i \in (1..Len(mods_list)) \ chosen : \A p \in 1..Len(at) :
                      /\ ~TupleLess(key[i], key[at[p]])
                      /\ key[at[p]] = key[i] => at[p] < i))

\* C9: oldest_mods is the last min(5, N) records of the descending sort in
\* reverse order: min(5, N) records in ascending order of the parsed tuple,
\* records of equal tuples in the reverse of the input's order, and of the
\* records of the tuple at the cut-off the ones that come last in the input.
C9_Oldest ==
    pc = "stats" =>
        With(KeysOf(mods_list), LAMBDA key :
        With(Indices(mods_list, stats.oldest_mods), LAMBDA at :
            LET chosen == {at[p] : p \in 1..Len(at)}
            IN  /\ IsSelection(mods_list, stats.oldest_mods)
                /\ \A p, q \in 1..Len(at) :
                      p < q => /\ ~TupleLess(key[at[q]], key[at[p]])
                               /\ key[at[p]] = key[at[q]] => at[p] > at[q]
                /\ \A i \in (1..Len(mods_list)) \ chosen : \A p \in 1..Len(at) :
                      /\ ~TupleLess(key[i], key[at[p]])
                      /\ key[at[p]] = key[i] => at[p] > i))

\* More than five records, and two of one tuple of which the cut-off takes
\* one: the later one of the input.
C9_Witness ==
    /\ pc = "stats"
    /\ Len(mods_list) > TopN
    /\ \E i, j \in 1..Len(mods_list) :
          /\ i < j
          /\ version_key(mods_list[i]) = version_key(mods_list[j])
          /\ \E p \in 1..Len(stats.oldest_mods) : stats.oldest_mods[p] = mods_list[j]
          /\ \A p \in 1..Len(stats.oldest_mods) : stats.oldest_mods[p] # mods_list[i]

\* The authors of a list, each with its number of records and the index of
\* its first record.
AuthorsOf(list) == {list[i].author : i \in 1..Len(list)}

CountOf(list, a) == Cardinality({i \in 1..Len(list) : list[i].author = a})

FirstOf(list, a) ==
    CHOOSE i \in 1..Len(list) :
        list[i].author = a /\ \A j \in 1..(i - 1) : list[j].author # a

\* C10: top_authors has min(5, number of authors) entries (author, number of
\* records of the author), each author once, in non-increasing order of the
\* number; authors of equal numbers are in the order in which the input
\* first has them, and so are the ones the cut-off takes and leaves.
C10_TopAuthors ==
    pc = "stats" =>
        LET top == stats.top_authors
            listed == {top[p][1] : p \in 1..Len(top)}
        IN  /\ Len(top) = Min(TopN, Cardinality(AuthorsOf(mods_list)))
            /\ \A p \in 1..Len(top) :
                  /\ top[p][1] \in AuthorsOf(mods_list)
                  /\ top[p][2] = CountOf(mods_list, top[p][1])
            /\ \A p, q \in 1..Len(top) :
                  p < q => /\ top[p][1] # top[q][1]
                           /\ top[p][2] >= top[q][2]
                           /\ top[p][2] = top[q][2] =>
                                 FirstOf(mods_list, top[p][1]) < FirstOf(mods_list, top[q][1])
            /\ \A a \in AuthorsOf(mods_list) \ listed : \A p \in 1..Len(top) :
                  /\ top[p][2] >= CountOf(mods_list, a)
                  /\ top[p][2] = CountOf(mods_list, a) =>
                        FirstOf(mods_list, top[p][1]) < FirstOf(mods_list, a)

\* More than five authors, one of them with two records and not the first
\* of the input, at the head of top_authors.
C10_Witness ==
    /\ pc = "stats"
    /\ Cardinality(AuthorsOf(mods_list)) > TopN
    /\ Len(stats.top_authors) = TopN
    /\ stats.top_authors[1][2] = 2
    /\ stats.top_authors[1][1] # mods_list[1].author

\* The rows under the first header line of a text, as csv.DictReader gives
\* them; none when the text has no header line.
DataRows(text) ==
    With(LinesOfText(text), LAMBDA lines :
        With(header_line_idx(lines), LAMBDA idx :
            IF idx = 0 THEN <<>>
            ELSE DictReader(Flatten(SubSeq(lines, idx, Len(lines))))))

\* A field of a row that is there and is not the empty text.
Filled(row, name) ==
    name \in DOMAIN row /\ row[name] # None /\ row[name] # <<>>

\* The rows that are not skipped: Author and Mod Name are both filled.
Kept(rows) ==
    {i \in 1..Len(rows) :
        Filled(rows[i], <<"Author">>) /\ Filled(rows[i], <<"Mod Name">>)}

\* "<Author>:<Mod Name>"
JoinedKey(row) == row[<<"Author">>] \o <<COLON>> \o row[<<"Mod Name">>]

\* The text with its lines in the reverse order, the first line kept first.
RowsReversed(text) ==
    With(LinesOfText(text), LAMBDA lines :
        IF lines = <<>> THEN <<>>
        ELSE Flatten(<<lines[1]>> \o Reverse(Tail(lines))))

\* C13: of the rows after the header line, load_csv_for_comparison skips
\* exactly the rows whose Author or Mod Name is empty or absent; every other
\* row is entered under "<Author>:<Mod Name>", and of the rows of one key the
\* mapping holds the last; the number of entries is the number of distinct
\* keys of the rows not skipped, whatever the order of the rows.
C13_RowsKept ==
    pc = "read" =>
        With(DataRows(csv_text), LAMBDA rows :
        With(Kept(rows), LAMBDA kept :
            /\ DOMAIN mods = {JoinedKey(rows[i]) : i \in kept}
            /\ \A i \in kept :
                  (\A j \in kept : JoinedKey(rows[j]) = JoinedKey(rows[i]) => j <= i)
                  => mods[JoinedKey(rows[i])] = rows[i]
            /\ Cardinality(DOMAIN mods)
                  = Cardinality({JoinedKey(rows[i]) : i \in kept})
            /\ IsHeaderLine(Head(LinesOfText(csv_text) \o << <<>> >>))
                  => DOMAIN load_csv_for_comparison(RowsReversed(csv_text)) = DOMAIN mods))

\* A header line and two rows under it read: two authors and names that are
\* joined to one key ("A:B" with "C", "A" with "B:C"), of which the mapping
\* has the second row.
C13_Witness ==
    /\ pc = "read"
    /\ Len(DataRows(csv_text)) = 2
    /\ Cardinality(Kept(DataRows(csv_text))) = 2
    /\ DataRows(csv_text)[1][<<"Author">>] # DataRows(csv_text)[2][<<"Author">>]
    /\ Cardinality(DOMAIN mods) = 1
    /\ \E k \in DOMAIN mods :
          /\ mods[k] = DataRows(csv_text)[2]
          /\ mods[k] # DataRows(csv_text)[1]

\* The triples with the old and the new value exchanged.
Exchanged(triples) == {<<t[1], t[3], t[2]>> : t \in triples}

\* C14: the comparison with the two files in the other roles (newer = file2,
\* older = file1) has as added what this one has as removed, as removed what
\* this one has as added, and as version-changed and enabled-changed triples
\* the ones of this comparison with old and new value exchanged; a file
\* compared with itself gives four empty collections.
C14_RolesExchanged ==
    (pc = "compared" /\ error = "") =>
        LET keys1 == DOMAIN mods1
            keys2 == DOMAIN mods2
            both == common_keys(keys2, keys1)
        IN  /\ added_keys(keys2, keys1) = removed
            /\ removed_keys(keys2, keys1) = added
            /\ both = common
            /\ changes(mods2, mods1, both, <<"Version">>) = Exchanged(updated)
            /\ changes(mods2, mods1, both, <<"Enabled">>) = Exchanged(enabled_changes)
            /\ {t[1] : t \in changes(mods2, mods1, both, <<"Version">>)}
                  = {t[1] : t \in updated}
            /\ file1 = file2 =>
                  /\ added = {}
                  /\ removed = {}
                  /\ updated = {}
                  /\ enabled_changes = {}

\* A comparison in which each of the four collections has an element.
C14_Witness ==
    /\ pc = "compared"
    /\ added # {}
    /\ removed # {}
    /\ updated # {}
    /\ enabled_changes # {}


\* The export operation is over: it waits at its last prompt or an exception
\* has left it.
ExportEnded == pc \in {"export_done", "uncaught"} /\ csv_out # "none"

\* C11: in one export operation the CSV and the ODS file are independent
\* outputs. Once the operation is over, a CSV file that could not be written
\* has not kept export_to_ods from being called, an ODS file that could not be
\* written has left the CSV file written, and without odfpy the ODS file is
\* skipped and the CSV file is written.
C11_IndependentOutputs ==
    ExportEnded =>
        /\ csv_out = "failed" => ods_out # "none"
        /\ ods_out = "failed" => csv_out = "written"
        /\ ~HAS_ODF /\ ods_out # "none" => ods_out = "skipped" /\ csv_out = "written"

\* C12: a KeyboardInterrupt at any prompt (the mode prompt, the profile
\* prompt, the two file prompts, every "Press Enter" prompt) aborts the
\* current operation only: the program is back in the menu loop of main, the
\* process has not ended and no exception has left main.
C12_InterruptReturnsToMenu ==
    typed = Interrupt => pc = "select_mode" /\ error = ""

====
